---- MODULE Spec2Model ----
(***************************************************************************)
(* LazyMobXCache (src/src/shared/lib/LazyMobXCache.ts): a lazy, batched,   *)
(* deduplicating read-through cache.  get(query) schedules the query in an *)
(* accumulating debouncer; the debouncer's flush calls populate, which     *)
(* filters the batch against the snapshot and the pending map, invokes the *)
(* fetch collaborator once, and merges the outcome into the snapshot.      *)
(*                                                                         *)
(* JavaScript objects are modelled as functions whose domain is the set of *)
(* own property names, so that "property present" and "property absent"    *)
(* are different things; arrays are sequences.                             *)
(***************************************************************************)
EXTENDS Integers, Sequences, FiniteSets, TLC

VARIABLES
    cache,        \* this._cache: [ref, value]; value maps cache key -> entry
    pending,      \* this.pending: cache key -> BOOLEAN (own keys only)
    accumulator,  \* the debouncer's queryMap, as <<key, query>> in insertion order
    timer,        \* TRUE iff the debouncer's timer is armed
    inflight,     \* the `missing` lists of populate calls suspended at `await fetch`
    fetchCount,   \* per cache key: how often it occurred in a fetch argument list
    nFetch,       \* number of invocations of the fetch collaborator so far
    skipped,      \* the keys the populate call of the latest step filtered out
    ret           \* what the peek or get call of the latest step returned

vars == <<cache, pending, accumulator, timer, inflight, fetchCount, nFetch, skipped, ret>>

----------------------------------------------------------------------------
(* Bounds of the model: the longest fetch result (counted in data items)   *)
(* and the longest array handed to addData.                                *)
MaxResultLen == 2
MaxAddLen == 1

(* JavaScript's null and undefined. *)
Null == [null |-> "null"]
Undefined == "undefined"

(* The latest step was not a call that returns a value. *)
Void == [void |-> "void"]

(* The arrays over S of at most n elements, none of them twice.  The loops  *)
(* over a data array assign toMerge[key] per element, so an array with a   *)
(* repeated element stages what it stages without the earlier occurrence.  *)
SeqUpTo(S, n) ==
    {arr \in UNION {[1..k -> S] : k \in 0..n} :
        \A i, j \in 1..Len(arr) : i # j => arr[i] # arr[j]}

----------------------------------------------------------------------------
(* The caller-supplied collaborators: queries, data, metadata, key codec.  *)
(* A query and a datum both carry the id that is their cache key.  Q1 and  *)
(* Q1b are different query objects with the same key; D1x and D1y are two  *)
(* data of the same key with different optional fields.  The codec is the  *)
(* common one that reads the key off the datum and ignores the metadata.   *)
Q1 == [id |-> "1", hint |-> "a"]
Q1b == [id |-> "1", hint |-> "b"]
Q2 == [id |-> "2", hint |-> "a"]
Queries == {Q1, Q1b, Q2}

D1x == [id |-> "1", x |-> "x"]
D1y == [id |-> "1", y |-> "y"]
D2 == [id |-> "2", x |-> "x"]
Data == {D1x, D1y, D2}
Meta == {"M"}

queryToKey(q) == q.id

dataToKey(d, m) == d.id

Keys ==
    {queryToKey(q) : q \in Queries}
        \cup {dataToKey(d, m) : d \in Data, m \in Meta \cup {Undefined}}

(* FetchResult: a flat sequence of data, or a sequence of augmented groups. *)
(* With one metadata value, a result of several groups stages exactly the  *)
(* entries of the single group that holds their data in the same order, so *)
(* the augmented results enumerated are the one-group ones.                *)
AugmentedData == {[data |-> ds, meta |-> m] : ds \in SeqUpTo(Data, MaxResultLen), m \in Meta}

FetchResult == SeqUpTo(Data, MaxResultLen) \cup {<<group>> : group \in AugmentedData}

isAugmentedData(data) == "meta" \in DOMAIN data

----------------------------------------------------------------------------
(* CacheData values, as the object literals of the source build them.      *)
Complete(d) == [status |-> "complete", data |-> d]
CompleteMeta(d, m) == [status |-> "complete", data |-> d, meta |-> m]
Error == [status |-> "error", data |-> Null]

(* Immutable's merge with {deep: true}: a property present on both sides   *)
(* whose two values are mergeable objects (non-null, non-array objects) is *)
(* merged recursively; any other property of `other` replaces the current  *)
(* one; properties only the current object has are kept.                   *)
isMergableObject(v) == v # Null

mergeObject(current, other) ==
    [p \in DOMAIN current \cup DOMAIN other |->
        IF p \in DOMAIN other THEN other[p] ELSE current[p]]

mergeEntry(current, other) ==
    [p \in DOMAIN current \cup DOMAIN other |->
        IF p \notin DOMAIN other THEN current[p]
        ELSE IF p \notin DOMAIN current THEN other[p]
        ELSE IF p = "data" /\ isMergableObject(current[p]) /\ isMergableObject(other[p])
             THEN mergeObject(current[p], other[p])
        ELSE other[p]]

deepMerge(current, other) ==
    [k \in DOMAIN current \cup DOMAIN other |->
        IF k \notin DOMAIN other THEN current[k]
        ELSE IF k \notin DOMAIN current THEN other[k]
        ELSE mergeEntry(current[k], other[k])]

(* merge returns the receiver itself when nothing changed, and a new       *)
(* immutable object otherwise.                                             *)
immutableMerge(snapshot, toMerge) ==
    LET merged == deepMerge(snapshot.value, toMerge)
    IN  IF merged = snapshot.value THEN snapshot
        ELSE [ref |-> snapshot.ref + 1, value |-> merged]

(* An updateCache that assigns toMerge itself as the new snapshot. *)
updateCache_assign(snapshot, toMerge) ==
    IF DOMAIN toMerge # {}
    THEN [ref |-> snapshot.ref + 1, value |-> toMerge]
    ELSE snapshot

(* An updateCache that assigns a fresh copy whatever it is given. *)
updateCache_always(snapshot, toMerge) ==
    [ref |-> snapshot.ref + 1, value |-> deepMerge(snapshot.value, toMerge)]

updateCache(snapshot, toMerge) ==
    IF Cardinality(DOMAIN toMerge) > 0
    THEN immutableMerge(snapshot, toMerge)
    ELSE snapshot

(* toMerge[key] = entry *)
put(toMerge, key, entry) ==
    [k \in DOMAIN toMerge \cup {key} |-> IF k = key THEN entry ELSE toMerge[k]]

EmptyObject == [k \in {} |-> Null]

----------------------------------------------------------------------------
(* this._cache[key] || null *)
lookup(snapshot, key) ==
    IF key \in DOMAIN snapshot.value THEN snapshot.value[key] ELSE Null

peek(query) == lookup(cache, queryToKey(query))

(* A reducer that appends every query instead of assigning by key. *)
accumulate_append(queryMap, newQuery) ==
    Append(queryMap, <<queryToKey(newQuery), newQuery>>)

(* The debouncer's reducer: queryMap[queryToKey(newQuery)] = newQuery.     *)
(* Assigning an existing property keeps its place in the key order.        *)
accumulate(queryMap, newQuery) ==
    LET key == queryToKey(newQuery)
    IN  IF \E i \in 1..Len(queryMap) : queryMap[i][1] = key
        THEN [i \in 1..Len(queryMap) |->
                 IF queryMap[i][1] = key THEN <<key, newQuery>> ELSE queryMap[i]]
        ELSE Append(queryMap, <<key, newQuery>>)

(* Object.keys(queryMap).map(k => queryMap[k]) *)
flushQueries(queryMap) == [i \in 1..Len(queryMap) |-> queryMap[i][2]]

isPending(pend, key) == key \in DOMAIN pend /\ pend[key]

(* Filters that forget the pending map, forget the snapshot, or take an    *)
(* error entry for a missing one.                                          *)
getMissing_ignorePending(queries) ==
    SelectSeq(queries, LAMBDA q : queryToKey(q) \notin DOMAIN cache.value)

getMissing_ignoreCache(queries) ==
    SelectSeq(queries, LAMBDA q : ~isPending(pending, queryToKey(q)))

getMissing_retryError(queries) ==
    SelectSeq(queries, LAMBDA q :
        /\ \/ queryToKey(q) \notin DOMAIN cache.value
           \/ cache.value[queryToKey(q)].status = "error"
        /\ ~isPending(pending, queryToKey(q)))

getMissing(queries) ==
    SelectSeq(queries, LAMBDA q :
        /\ queryToKey(q) \notin DOMAIN cache.value
        /\ ~isPending(pending, queryToKey(q)))

queryKeys(queries) == {queryToKey(queries[i]) : i \in 1..Len(queries)}

(* A markPending that stops after the first query. *)
markPending_first(pend, queries) ==
    [k \in DOMAIN pend \cup queryKeys(SubSeq(queries, 1, 1)) |->
        IF k \in queryKeys(SubSeq(queries, 1, 1)) THEN TRUE ELSE pend[k]]

markPending(pend, queries) ==
    [k \in DOMAIN pend \cup queryKeys(queries) |->
        IF k \in queryKeys(queries) THEN TRUE ELSE pend[k]]

(* An unmarkPending that stops after the first query. *)
unmarkPending_first(pend, queries) ==
    [k \in DOMAIN pend |->
        IF queries # <<>> /\ k = queryToKey(Head(queries)) THEN FALSE ELSE pend[k]]

unmarkPending(pend, queries) ==
    [k \in DOMAIN pend \cup queryKeys(queries) |->
        IF k \in queryKeys(queries) THEN FALSE ELSE pend[k]]

RECURSIVE markErrorLoop(_, _)
markErrorLoop(toMerge, queries) ==
    IF queries = <<>> THEN toMerge
    ELSE markErrorLoop(put(toMerge, queryToKey(Head(queries)), Error), Tail(queries))

(* A markError that marks every key with a fetch outstanding. *)
markError_pending(snapshot, queries) ==
    updateCache(snapshot, [k \in {key \in DOMAIN pending : pending[key]} |-> Error])

(* A markError that stops after the first query. *)
markError_first(snapshot, queries) ==
    updateCache(snapshot, markErrorLoop(EmptyObject, SubSeq(queries, 1, 1)))

markError(snapshot, queries) == updateCache(snapshot, markErrorLoop(EmptyObject, queries))

(* putData, first loop: stage every returned datum. *)
RECURSIVE stageGroup(_, _, _)
stageGroup(toMerge, data, meta) ==
    IF data = <<>> THEN toMerge
    ELSE stageGroup(put(toMerge, dataToKey(Head(data), meta), CompleteMeta(Head(data), meta)),
                    Tail(data), meta)

RECURSIVE stageData(_, _)
stageData(toMerge, data) ==
    IF data = <<>> THEN toMerge
    ELSE LET dataElt == Head(data)
         IN  IF isAugmentedData(dataElt)
             THEN stageData(stageGroup(toMerge, dataElt.data, dataElt.meta), Tail(data))
             ELSE stageData(put(toMerge, dataToKey(dataElt, Undefined), Complete(dataElt)),
                            Tail(data))

(* A second loop that stages nothing for the queries without data. *)
stageAbsent_none(toMerge, keyHasData, queries) == toMerge

(* putData, second loop: a query without data is staged as Complete(null). *)
(* keyHasData holds exactly the keys the first loop staged.                *)
RECURSIVE stageAbsent(_, _, _)
stageAbsent(toMerge, keyHasData, queries) ==
    IF queries = <<>> THEN toMerge
    ELSE LET queryKey == queryToKey(Head(queries))
         IN  IF queryKey \notin keyHasData
             THEN stageAbsent(put(toMerge, queryKey, Complete(Null)), keyHasData, Tail(queries))
             ELSE stageAbsent(toMerge, keyHasData, Tail(queries))

putDataStaged(queries, data) ==
    LET staged == stageData(EmptyObject, data)
    IN  stageAbsent(staged, DOMAIN staged, queries)

putData(snapshot, queries, data) == updateCache(snapshot, putDataStaged(queries, data))

(* How an awaited fetch ends: its promise resolves with data, or rejects.   *)
Resolved(data) == [rejected |-> FALSE, data |-> data]
Rejected == [rejected |-> TRUE]

(* populate after its await: putData on a result, markError on a failure.  *)
settle(snapshot, missing, outcome) ==
    IF outcome.rejected
    THEN markError(snapshot, missing)
    ELSE putData(snapshot, missing, outcome.data)

(* addData: the entry literal has no meta property. *)
RECURSIVE addDataLoop(_, _, _)
addDataLoop(toMerge, data, meta) ==
    IF data = <<>> THEN toMerge
    ELSE addDataLoop(put(toMerge, dataToKey(Head(data), meta), Complete(Head(data))),
                     Tail(data), meta)

addData(snapshot, data, meta) == updateCache(snapshot, addDataLoop(EmptyObject, data, meta))

RECURSIVE countFetched(_, _)
countFetched(count, queries) ==
    IF queries = <<>> THEN count
    ELSE countFetched([count EXCEPT ![queryToKey(Head(queries))] = @ + 1], Tail(queries))

RemoveAt(s, i) == [j \in 1..(Len(s) - 1) |-> IF j < i THEN s[j] ELSE s[j + 1]]

----------------------------------------------------------------------------
(* init(), and the debouncer idle. *)
Init ==
    /\ cache = [ref |-> 0, value |-> EmptyObject]
    /\ pending = [k \in {} |-> FALSE]
    /\ accumulator = <<>>
    /\ timer = FALSE
    /\ inflight = <<>>
    /\ fetchCount = [k \in Keys |-> 0]
    /\ nFetch = 0
    /\ skipped = {}
    /\ ret = Void

(* accumulatingDebounce: a call merges its argument into the accumulator   *)
(* and leaves the timer armed; when the timer fires the consumer gets the  *)
(* accumulator, which is then reset, and the debouncer is idle again.      *)
debouncedPopulate(query) ==
    /\ accumulator' = accumulate(accumulator, query)
    /\ timer' = TRUE

debounceFires ==
    /\ timer
    /\ accumulator' = <<>>
    /\ timer' = FALSE

(* A populate without the early return on an empty `missing`. *)
populate_always(queries, throws) ==
    LET missing == getMissing(queries)
    IN  /\ skipped' = queryKeys(queries) \ queryKeys(missing)
        /\ fetchCount' = countFetched(fetchCount, missing)
        /\ nFetch' = nFetch + 1
        /\ IF throws
           THEN /\ cache' = markError(cache, missing)
                /\ pending' = unmarkPending(markPending(pending, missing), missing)
                /\ UNCHANGED inflight
           ELSE /\ pending' = markPending(pending, missing)
                /\ inflight' = Append(inflight, missing)
                /\ UNCHANGED cache

(* populate(queries), up to its await.  The fetch collaborator either      *)
(* returns a promise, which leaves the call suspended, or throws at once,  *)
(* which runs the catch and finally blocks in the same turn.               *)
populate(queries, throws) ==
    LET missing == getMissing(queries)
    IN  /\ skipped' = queryKeys(queries) \ queryKeys(missing)
        /\ IF missing = <<>>
           THEN UNCHANGED <<cache, pending, inflight, fetchCount, nFetch>>
           ELSE /\ fetchCount' = countFetched(fetchCount, missing)
                /\ nFetch' = nFetch + 1
                /\ IF throws
                   THEN /\ cache' = markError(cache, missing)
                        /\ pending' = unmarkPending(markPending(pending, missing), missing)
                        /\ UNCHANGED inflight
                   ELSE /\ pending' = markPending(pending, missing)
                        /\ inflight' = Append(inflight, missing)
                        /\ UNCHANGED cache

(* A peek that goes through the debouncer, as get does. *)
Peek_scheduling(query) ==
    /\ debouncedPopulate(query)
    /\ ret' = peek(query)
    /\ skipped' = {}
    /\ UNCHANGED <<cache, pending, inflight, fetchCount, nFetch>>

(* peek(query): return this._cache[queryToKey(query)] || null. *)
Peek(query) ==
    /\ ret' = peek(query)
    /\ skipped' = {}
    /\ UNCHANGED <<cache, pending, accumulator, timer, inflight, fetchCount, nFetch>>

(* A get that calls populate itself instead of the debouncer. *)
Get_immediate(query) ==
    /\ populate(<<query>>, FALSE)
    /\ UNCHANGED <<accumulator, timer>>
    /\ ret' = lookup(cache', queryToKey(query))

(* get(query): debouncedPopulate(query); return peek(query).  The peek     *)
(* reads the cache as the call to the debouncer left it.                   *)
Get(query) ==
    /\ debouncedPopulate(query)
    /\ skipped' = {}
    /\ UNCHANGED <<cache, pending, inflight, fetchCount, nFetch>>
    /\ ret' = lookup(cache', queryToKey(query))

(* addData(data, meta) *)
AddData(data, meta) ==
    /\ cache' = addData(cache, data, meta)
    /\ skipped' = {}
    /\ ret' = Void
    /\ UNCHANGED <<pending, accumulator, timer, inflight, fetchCount, nFetch>>

(* The debounce timer fires and the flush consumer calls populate. *)
Flush(throws) ==
    /\ debounceFires
    /\ ret' = Void
    /\ populate(flushQueries(accumulator), throws)

(* populate resumes after its await: the promise of in-flight fetch i      *)
(* resolved with `data`; putData, then the finally block.                  *)
FetchResolve(i, data) ==
    /\ i \in 1..Len(inflight)
    /\ cache' = putData(cache, inflight[i], data)
    /\ pending' = unmarkPending(pending, inflight[i])
    /\ inflight' = RemoveAt(inflight, i)
    /\ skipped' = {}
    /\ ret' = Void
    /\ UNCHANGED <<accumulator, timer, fetchCount, nFetch>>

(* populate resumes after its await: the promise of in-flight fetch i      *)
(* rejected; markError, then the finally block.                            *)
FetchReject(i) ==
    /\ i \in 1..Len(inflight)
    /\ cache' = markError(cache, inflight[i])
    /\ pending' = unmarkPending(pending, inflight[i])
    /\ inflight' = RemoveAt(inflight, i)
    /\ skipped' = {}
    /\ ret' = Void
    /\ UNCHANGED <<accumulator, timer, fetchCount, nFetch>>

Next ==
    \/ \E query \in Queries : Peek(query)
    \/ \E query \in Queries : Get(query)
    \/ \E data \in SeqUpTo(Data, MaxAddLen), meta \in Meta \cup {Undefined} : AddData(data, meta)
    \/ \E throws \in BOOLEAN : Flush(throws)
    \/ \E i \in 1..Len(inflight), data \in FetchResult : FetchResolve(i, data)
    \/ \E i \in 1..Len(inflight) : FetchReject(i)

Spec == Init /\ [][Next]_vars

(* Every started fetch eventually settles: the suspended populate call     *)
(* whose batch holds `key` is resumed, by its promise resolving or          *)
(* rejecting.                                                               *)
Settle(key) ==
    \E i \in 1..Len(inflight) :
        /\ key \in queryKeys(inflight[i])
        /\ inflight' = RemoveAt(inflight, i)
        /\ \/ FetchReject(i)
           \/ \E data \in FetchResult : FetchResolve(i, data)

FairSpec == Spec /\ \A key \in Keys : WF_vars(Settle(key))

(* Every debounce window eventually flushes, and every started fetch        *)
(* eventually settles.                                                      *)
LiveSpec ==
    /\ Spec
    /\ WF_vars(\E throws \in BOOLEAN : Flush(throws))
    /\ \A key \in Keys : WF_vars(Settle(key))

----------------------------------------------------------------------------
(* Vocabulary of the properties. *)
InFlightKeys == UNION {queryKeys(inflight[i]) : i \in 1..Len(inflight)}

PendingKeys == {k \in Keys : isPending(pending, k)}

(* The keys requested in the current debounce window. *)
WindowKeys == {queryToKey(accumulator[i][2]) : i \in 1..Len(accumulator)}

(* The debounce window flushes in this step. *)
FlushStep == timer /\ ~timer'

(* C1: Coalescing.  The flush of a debounce window invokes the fetch        *)
(* collaborator at most once, exactly once when some requested key is       *)
(* neither cached nor pending, and every such key occurs exactly once in    *)
(* the argument list (no other key occurs at all), however many get calls   *)
(* of the window named it.                                                  *)
C1_Coalescing ==
    [][FlushStep =>
        LET fresh == {k \in WindowKeys :
                         k \notin DOMAIN cache.value /\ ~isPending(pending, k)}
        IN  /\ nFetch' = nFetch + (IF fresh = {} THEN 0 ELSE 1)
            /\ \A k \in Keys :
                   fetchCount'[k] = fetchCount[k] + (IF k \in fresh THEN 1 ELSE 0)]_vars

(* A burst for two keys went out as one fetch of a two-query batch. *)
C1_Witness ==
    /\ nFetch = 1
    /\ inflight = <<(<<Q1b, Q2>>)>>
    /\ fetchCount = [k \in Keys |-> 1]

(* C2: No redundant fetch for a pending key.  No step puts a key into a    *)
(* fetch argument list while a fetch whose batch holds that key is in       *)
(* flight.                                                                  *)
C2_NoRefetchWhilePending ==
    [][\A k \in InFlightKeys : fetchCount'[k] = fetchCount[k]]_vars

(* A flush has just filtered out key "1" because its fetch is in flight. *)
C2_Witness ==
    /\ "1" \in InFlightKeys
    /\ "1" \in skipped
    /\ "1" \notin DOMAIN cache.value
    /\ fetchCount["1"] = 1

(* C3: No redundant fetch for a cached key.  No step puts a key that has a *)
(* Complete entry into a fetch argument list.                               *)
C3_NoRefetchWhenComplete ==
    [][\A k \in DOMAIN cache.value :
           cache.value[k].status = "complete" => fetchCount'[k] = fetchCount[k]]_vars

(* A flush has filtered out key "1", Complete through addData alone. *)
C3_Witness ==
    /\ "1" \in DOMAIN cache.value
    /\ cache.value["1"].status = "complete"
    /\ "1" \in skipped
    /\ fetchCount["1"] = 0

(* C4: At most one fetch per key.  Over the cache's lifetime every key      *)
(* occurs at most once in the argument lists of the fetch collaborator,     *)
(* a key with an Error entry included.                                      *)
C4_AtMostOneFetchPerKey == \A k \in Keys : fetchCount[k] <= 1

(* Key "1" failed its only fetch, and a later flush filtered it out while   *)
(* fetching key "2".                                                        *)
C4_Witness ==
    /\ "1" \in DOMAIN cache.value
    /\ cache.value["1"].status = "error"
    /\ fetchCount["1"] = 1
    /\ skipped = {"1"}
    /\ inflight = <<(<<Q2>>)>>
    /\ nFetch = 2

(* What a failed batch leaves behind. *)
ErrorIsolated(batch) ==
    \A k \in Keys :
        IF k \in queryKeys(batch)
        THEN /\ lookup(cache', k) # Null
             /\ lookup(cache', k).status = "error"
             /\ lookup(cache', k).data = Null
             /\ ~isPending(pending', k)
        ELSE lookup(cache', k) = lookup(cache, k)

(* C5: Error isolation.  When the fetch of a batch rejects, or throws in    *)
(* the flush itself, every key of the batch has an entry with status Error  *)
(* and null data and is not pending, and no other key's entry changed.      *)
C5_ErrorIsolation ==
    [][/\ \A i \in 1..Len(inflight) : FetchReject(i) => ErrorIsolated(inflight[i])
       /\ (Flush(TRUE) /\ nFetch' # nFetch) =>
              ErrorIsolated(getMissing(flushQueries(accumulator)))]_vars

(* The fetch of the batch of both keys failed. *)
C5_Witness ==
    /\ nFetch = 1
    /\ inflight = <<>>
    /\ \A k \in Keys :
           /\ fetchCount[k] = 1
           /\ lookup(cache, k) # Null
           /\ lookup(cache, k).status = "error"
           /\ k \in DOMAIN pending /\ ~pending[k]

(* C6: Pending never leaks.  The settling of a fetch unmarks every key of   *)
(* its batch; with no fetch in flight no key is pending; and, every started *)
(* fetch settling eventually, a pending key eventually is not pending.      *)
C6_PendingNeverLeaks ==
    /\ [][\A i \in 1..Len(inflight) :
              Len(inflight') < Len(inflight) /\ inflight' = RemoveAt(inflight, i)
                  => \A k \in queryKeys(inflight[i]) : ~isPending(pending', k)]_vars
    /\ [](inflight = <<>> => PendingKeys = {})
    /\ \A k \in Keys : isPending(pending, k) ~> ~isPending(pending, k)

(* Both keys were marked pending and both are unmarked again. *)
C6_Witness ==
    /\ inflight = <<>>
    /\ \A k \in Keys : k \in DOMAIN pending /\ ~pending[k] /\ fetchCount[k] = 1

(* The data of a fetch result in order, each with the metadata of its      *)
(* group (Undefined for a flat datum).                                     *)
RECURSIVE resultItems(_)
resultItems(data) ==
    IF data = <<>> THEN <<>>
    ELSE LET dataElt == Head(data)
         IN  (IF "meta" \in DOMAIN dataElt
              THEN [j \in 1..Len(dataElt.data) |->
                       [datum |-> dataElt.data[j], meta |-> dataElt.meta]]
              ELSE <<[datum |-> dataElt, meta |-> Undefined]>>)
             \o resultItems(Tail(data))

ItemKey(item) == dataToKey(item.datum, item.meta)

(* Item j is the datum the result gives for its key (the last one, should  *)
(* the result name the key twice).                                         *)
IsDatumOfKey(items, j) ==
    \A j2 \in (j + 1)..Len(items) : ItemKey(items[j2]) # ItemKey(items[j])

(* C7: Confirmed-absent marking.  When the fetch of a batch resolves, every *)
(* key of the batch for which the result holds a datum is Complete with     *)
(* that datum, and every other key of the batch is Complete with null data. *)
C7_ConfirmedAbsent ==
    [][\A i \in 1..Len(inflight) : \A data \in FetchResult :
           (inflight' = RemoveAt(inflight, i) /\ FetchResolve(i, data)) =>
               LET items == resultItems(data)
               IN  \A k \in queryKeys(inflight[i]) :
                       /\ lookup(cache', k) # Null
                       /\ lookup(cache', k).status = "complete"
                       /\ \A j \in 1..Len(items) :
                              (ItemKey(items[j]) = k /\ IsDatumOfKey(items, j)) =>
                                  lookup(cache', k).data = items[j].datum
                       /\ (\A j \in 1..Len(items) : ItemKey(items[j]) # k) =>
                              lookup(cache', k).data = Null]_vars

(* C8: Augmented metadata propagation.  When a fetch resolves, every datum  *)
(* of a group is stored, under dataToKey(datum, meta), as the Complete      *)
(* entry of exactly that datum and the group's metadata, and a flat datum   *)
(* as the Complete entry of that datum without metadata.                    *)
C8_MetadataPropagation ==
    [][\A i \in 1..Len(inflight) : \A data \in FetchResult :
           (inflight' = RemoveAt(inflight, i) /\ FetchResolve(i, data)) =>
               LET items == resultItems(data)
               IN  \A j \in 1..Len(items) :
                       IsDatumOfKey(items, j) =>
                           lookup(cache', ItemKey(items[j])) =
                               IF items[j].meta = Undefined
                               THEN Complete(items[j].datum)
                               ELSE CompleteMeta(items[j].datum, items[j].meta)]_vars

(* C9: addData bypass.  addData([d], M) leaves under d's key the Complete   *)
(* entry of d and M, invokes no fetch and does not touch the pending map.   *)
C9_AddDataBypass ==
    [][\A d \in Data : \A m \in Meta :
           AddData(<<d>>, m) =>
               /\ lookup(cache', dataToKey(d, m)) = CompleteMeta(d, m)
               /\ nFetch' = nFetch
               /\ fetchCount' = fetchCount
               /\ pending' = pending
               /\ inflight' = inflight]_vars

(* A step that merges nothing: a get, a flush that fetches nothing or whose *)
(* fetch is left in flight, or an addData of no data.                       *)
NoKeyMergedStep ==
    \/ \E query \in Queries : Get(query)
    \/ Flush(FALSE)
    \/ Flush(TRUE) /\ nFetch' = nFetch
    \/ \E meta \in Meta \cup {Undefined} : AddData(<<>>, meta)

(* C10: Empty merge is a no-op.  In every reachable state updateCache with  *)
(* the empty mapping returns the very snapshot it was given, reference      *)
(* included, and the snapshot reference changes only in steps that merge at *)
(* least one key.                                                           *)
C10_EmptyMergeNoOp ==
    /\ [](updateCache(cache, EmptyObject) = cache)
    /\ [][NoKeyMergedStep => cache'.ref = cache.ref]_vars

(* A snapshot has been published, and the empty merge keeps its reference. *)
C10_Witness ==
    /\ cache.ref = 1
    /\ DOMAIN cache.value # {}
    /\ addData(cache, <<>>, Undefined).ref = 1

(* What updateCache(toMerge) is to leave behind if it replaces entries     *)
(* whole: the supplied entry under every key of toMerge, every other key   *)
(* as it was.                                                              *)
Overwritten(toMerge) ==
    \A k \in Keys :
        lookup(cache', k) = IF k \in DOMAIN toMerge THEN toMerge[k] ELSE lookup(cache, k)

(* C11: Whole-entry overwrite.  After a step that calls updateCache with a *)
(* non-empty mapping (an addData, a resolved fetch, a rejected fetch) the  *)
(* entry of every key of the mapping is exactly the supplied entry, with   *)
(* no field of the key's previous entry surviving, and the entry of every  *)
(* other key is unchanged.                                                 *)
C11_WholeEntryOverwrite ==
    [][/\ \A data \in SeqUpTo(Data, MaxAddLen) : \A meta \in Meta \cup {Undefined} :
              (data # <<>> /\ AddData(data, meta)) =>
                  Overwritten(addDataLoop(EmptyObject, data, meta))
       /\ \A i \in 1..Len(inflight) :
              FetchReject(i) => Overwritten(markErrorLoop(EmptyObject, inflight[i]))
       /\ \A i \in 1..Len(inflight) : \A data \in FetchResult :
              (inflight' = RemoveAt(inflight, i) /\ FetchResolve(i, data)) =>
                  Overwritten(putDataStaged(inflight[i], data))]_vars

(* C12: peek is a pure read.  A peek(q) step invokes no fetch, leaves the  *)
(* debouncer, the snapshot, the pending map and the in-flight fetches as   *)
(* they were, and returns the snapshot's entry of queryToKey(q), or null   *)
(* when the key is unset; a second peek(q) right after it would return the *)
(* same value.                                                             *)
C12_PeekPureRead ==
    [][\A q \in Queries :
           Peek(q) =>
               /\ nFetch' = nFetch /\ fetchCount' = fetchCount
               /\ accumulator' = accumulator /\ timer' = timer
               /\ cache' = cache /\ pending' = pending /\ inflight' = inflight
               /\ ret' = IF queryToKey(q) \in DOMAIN cache.value
                         THEN cache.value[queryToKey(q)]
                         ELSE Null
               /\ lookup(cache', queryToKey(q)) = ret']_vars

(* A peek returned an entry (put there by addData) while nothing has ever  *)
(* been scheduled or fetched.                                              *)
C12_Witness ==
    /\ ret \notin {Void, Null}
    /\ accumulator = <<>> /\ ~timer
    /\ nFetch = 0 /\ pending = [k \in {} |-> FALSE]

(* C13: A failed fetch never destroys complete data.  When the fetch of a  *)
(* batch rejects, every key of the batch that has a Complete entry by then *)
(* (through addData, or through the result of another batch) keeps that    *)
(* entry: the Error entries replace unset entries only.                    *)
C13_FailureKeepsComplete ==
    [][\A i \in 1..Len(inflight) :
           FetchReject(i) =>
               \A k \in queryKeys(inflight[i]) :
                   (lookup(cache, k) # Null /\ lookup(cache, k).status = "complete") =>
                       lookup(cache', k) = lookup(cache, k)]_vars

(* C14: Entry well-formedness.  In every reachable snapshot an entry with  *)
(* status Error has null data and carries no metadata.                     *)
C14_ErrorWellFormed ==
    \A k \in DOMAIN cache.value :
        cache.value[k].status = "error" =>
            /\ cache.value[k].data = Null
            /\ "meta" \notin DOMAIN cache.value[k]

(* The keys a fetch result holds data for. *)
resultKeys(data) == {ItemKey(resultItems(data)[j]) : j \in 1..Len(resultItems(data))}

AnyOutcome(batch) == {Rejected} \cup {Resolved(data) : data \in FetchResult}

(* The outcomes whose result holds data for keys of the batch only. *)
OwnOutcome(batch) ==
    {Rejected} \cup
    {Resolved(data) : data \in {d \in FetchResult : resultKeys(d) \subseteq queryKeys(batch)}}

(* Two fetches in flight for disjoint key sets, settling with outcomes      *)
(* drawn from Outcome: the settling of one leaves the entries of all keys   *)
(* outside its batch alone, and both completion orders end in the same      *)
(* snapshot.                                                                *)
BatchesIndependent(Outcome(_)) ==
    \A i, j \in 1..Len(inflight) :
        (i # j /\ queryKeys(inflight[i]) \cap queryKeys(inflight[j]) = {}) =>
            \A oi \in Outcome(inflight[i]) :
                LET afterI == settle(cache, inflight[i], oi)
                IN  /\ \A k \in Keys \ queryKeys(inflight[i]) :
                           lookup(afterI, k) = lookup(cache, k)
                    /\ \A oj \in Outcome(inflight[j]) :
                           settle(afterI, inflight[j], oj).value =
                               settle(settle(cache, inflight[j], oj), inflight[i], oi).value

(* C15 as stated: Independent batches do not interfere.  Whatever the two   *)
(* fetches in flight for disjoint key sets return, the settling of each     *)
(* changes entries of its own batch's keys only and the final snapshot is   *)
(* the same for both completion orders.                                     *)
C15_IndependentBatches == BatchesIndependent(AnyOutcome)

(* C15, amended: Independent batches do not interfere, provided the result  *)
(* of each fetch holds data only for keys of its own batch: then the        *)
(* settling of each changes entries of its own batch's keys only and the    *)
(* final snapshot is the same for both completion orders.                   *)
C15_IndependentOwnResults == BatchesIndependent(OwnOutcome)

(* Two fetches are in flight for different keys, nothing is cached yet, and *)
(* a result for the first with a failure of the second fills both entries.  *)
C15_Witness ==
    /\ Len(inflight) = 2
    /\ queryKeys(inflight[1]) \cap queryKeys(inflight[2]) = {}
    /\ cache.value = EmptyObject
    /\ \E o \in OwnOutcome(inflight[1]) :
           /\ ~o.rejected /\ o.data # <<>>
           /\ DOMAIN settle(settle(cache, inflight[2], Rejected), inflight[1], o).value = Keys

(* C16: get is non-blocking and has no synchronous effect on the cache.     *)
(* A get(q) step returns what peek(q) returns in the state it is called in, *)
(* leaves the snapshot, the pending map and the in-flight fetches as they   *)
(* were and invokes no fetch; in the debouncer it arms the timer and puts q *)
(* under its key, leaving the queries of other keys alone; and the fetch    *)
(* collaborator is invoked by flush steps only.                             *)
C16_GetNonBlocking ==
    /\ [][\A q \in Queries :
              Get(q) =>
                  /\ ret' = peek(q)
                  /\ cache' = cache /\ pending' = pending /\ inflight' = inflight
                  /\ nFetch' = nFetch /\ fetchCount' = fetchCount
                  /\ timer'
                  /\ WindowKeys' = WindowKeys \cup {queryToKey(q)}
                  /\ \A n \in 1..Len(accumulator') :
                         IF accumulator'[n][1] = queryToKey(q)
                         THEN accumulator'[n][2] = q
                         ELSE accumulator'[n] \in {accumulator[m] : m \in 1..Len(accumulator)}]_vars
    /\ [][(nFetch' # nFetch \/ fetchCount' # fetchCount) => FlushStep]_vars

(* get(Q1) has returned the entry addData had put, and Q1 waits in the      *)
(* debouncer with nothing fetched or pending.                               *)
C16_Witness ==
    /\ ret = Complete(D1x)
    /\ lookup(cache, "1") = Complete(D1x)
    /\ accumulator = <<(<<"1", Q1>>)>> /\ timer
    /\ nFetch = 0 /\ PendingKeys = {} /\ inflight = <<>>

(* C17: A flush that needs nothing is a no-op.  A flush whose window holds  *)
(* only keys that are in the snapshot or pending invokes no fetch and       *)
(* leaves the pending map, the snapshot and the in-flight fetches as they   *)
(* were; and the fetch collaborator is never invoked with an empty list:    *)
(* every invocation names at least one key, and no in-flight batch is       *)
(* empty.                                                                   *)
C17_NothingNeededNoOp ==
    /\ [][(FlushStep /\ \A k \in WindowKeys : k \in DOMAIN cache.value \/ isPending(pending, k)) =>
              /\ nFetch' = nFetch /\ fetchCount' = fetchCount
              /\ pending' = pending /\ cache' = cache /\ inflight' = inflight]_vars
    /\ [][nFetch' # nFetch => \E k \in Keys : fetchCount'[k] = fetchCount[k] + 1]_vars
    /\ [](\A i \in 1..Len(inflight) : inflight[i] # <<>>)

(* A window of both keys has just been flushed with key "1" pending and key *)
(* "2" cached: both were filtered out and the only fetch ever made is the   *)
(* earlier one of key "1".                                                  *)
C17_Witness ==
    /\ skipped = {"1", "2"}
    /\ accumulator = <<>> /\ ~timer
    /\ nFetch = 1 /\ inflight = <<(<<Q1>>)>>
    /\ PendingKeys = {"1"}
    /\ lookup(cache, "2") = Complete(D2)

(* C18: Keys are never evicted.  No step removes a key from the snapshot:   *)
(* a query for which peek returns an entry has peek return an entry after   *)
(* every later step, whatever the entry then is.                            *)
C18_KeysNeverEvicted ==
    [][/\ DOMAIN cache.value \subseteq DOMAIN cache'.value
       /\ \A q \in Queries : peek(q) # Null => lookup(cache', queryToKey(q)) # Null]_vars

(* Three snapshots have been published over two keys, so an entry has been  *)
(* overwritten, and both keys are present.                                  *)
C18_Witness ==
    /\ cache.ref = 3
    /\ DOMAIN cache.value = Keys
    /\ \A q \in Queries : peek(q) # Null

(* C19: Pending set matches the in-flight fetches.  In every reachable      *)
(* state the batches of the fetches in flight have pairwise disjoint key    *)
(* sets, and the keys marked pending are exactly the keys of those batches. *)
C19_PendingMatchesInFlight ==
    /\ \A i, j \in 1..Len(inflight) :
           i # j => queryKeys(inflight[i]) \cap queryKeys(inflight[j]) = {}
    /\ PendingKeys = InFlightKeys

(* Two fetches are in flight, one per key, and both keys are pending. *)
C19_Witness ==
    /\ Len(inflight) = 2
    /\ InFlightKeys = {"1", "2"}
    /\ \A k \in Keys : isPending(pending, k)

(* The key has an entry, Complete or Error. *)
IsResolved(k) ==
    /\ k \in DOMAIN cache.value
    /\ cache.value[k].status \in {"complete", "error"}

(* C20: Every requested key is eventually resolved.  With every debounce    *)
(* window flushing and every started fetch settling eventually, a key that  *)
(* a get has put in the debouncer eventually has a Complete or Error entry; *)
(* and when a populate call settles (its fetch resolves, rejects, or throws *)
(* in the flush itself), every key of its batch has an entry.               *)
C20_EventuallyResolved ==
    /\ \A k \in Keys : (k \in WindowKeys) ~> IsResolved(k)
    /\ [][\A i \in 1..Len(inflight) :
              inflight' = RemoveAt(inflight, i) =>
                  \A k \in queryKeys(inflight[i]) : lookup(cache', k) # Null]_vars
    /\ [][(nFetch' # nFetch /\ inflight' = inflight) =>
              \A k \in Keys : fetchCount'[k] # fetchCount[k] => lookup(cache', k) # Null]_vars

(* Key "2" was requested and fetched, the result held no datum for it, and  *)
(* it is resolved as Complete with null data.                               *)
C20_Witness ==
    /\ fetchCount["2"] = 1
    /\ inflight = <<>>
    /\ IsResolved("2") /\ cache.value["2"] = Complete(Null)
    /\ "2" \notin WindowKeys

====
